---- MODULE Spec2Model ----
(***************************************************************************)
(* State-machine model of the CleaningForm component                       *)
(* (src/src/components/CleaningForm.tsx): the draft of one room's cleaning *)
(* task, its photo accumulator, the submission handler with its awaited    *)
(* e-mail notification, and the two external collaborators it calls (the   *)
(* persistence sink onSave and the provider emailjs.send).                 *)
(*                                                                         *)
(* Strings the code inspects (notes, roomNumber) are sequences of          *)
(* one-character strings.  The wall clock is a minute counter.             *)
(***************************************************************************)
EXTENDS Integers, Sequences, FiniteSets

\* ------------------------------------------------------------------ bounds
\* number of inputs the form receives over its life: checkbox, notes and date
\* edits, files selected, submissions that pass validation, and minutes
\* passing on the wall clock
MaxInputs == 4
\* longest room identifier the classification is applied to
MaxRoomLen == 3

\* ------------------------------------------------------- the environment
MinutesPerHour == 60
HoursPerDay == 24
MinutesPerDay == MinutesPerHour * HoursPerDay
\* wall clock (minutes since the epoch's midnight) at which the form mounts
StartClock == MinutesPerHour - 1

\* room identifiers the form is mounted for: standard rooms and special rooms
Rooms == { <<"1", "0", "1">>, <<"G", "1">> }
\* characters of the room identifiers the classification is applied to: the
\* four reserved letters, the reserved digit, a lower-case letter, another digit
RoomAlphabet == { "G", "M", "B", "P", "1", "g", "2" }
\* the value of the date input when the user clears it
EmptyDate == -1

VARIABLES
    roomNumber,             \* prop roomNumber
    initialCompletedToday,  \* prop completedToday
    completedToday,         \* useState(initialCompletedToday)
    error,                  \* useState('')
    images,                 \* useState<string[]>([])
    formData,               \* useState<Omit<CleaningTask,'id'>>
    readers,                \* FileReaders whose readAsDataURL has not ended
    uploaded,               \* number of File objects selected so far
    inflight,               \* handleSubmit calls suspended at await emailjs.send
    sendCalls,              \* number of calls made to emailjs.send
    sinkCalls,              \* number of calls made to onSave
    sinkThrows,             \* number of onSave calls that threw
    now,                    \* the wall clock
    inputs,                 \* number of inputs the form has received
    accepted,               \* number of submissions that passed validation
    toggledSinceCommit,     \* whether a checkbox changed since the last
                            \* onSave call that returned
    lastEvent               \* the handler that ran last: its inputs, the
                            \* request it made to emailjs.send and the
                            \* record it handed to onSave

vars == << roomNumber, initialCompletedToday, completedToday, error, images,
           formData, readers, uploaded, inflight, sendCalls, sinkCalls,
           sinkThrows, now, inputs, accepted, toggledSinceCommit, lastEvent >>

\* ------------------------------------------------------------ pure helpers
CheckboxKeys == { "visualCleaning", "maintenanceCleaning", "basicRoomCleaning",
                  "bedCleaning", "windowsCurtainsCleaning" }

ErrorMessage == "Bitte waehlen Sie mindestens eine Reinigungsart aus"

\* new Date().toLocaleTimeString('de-DE', {hour:'2-digit', minute:'2-digit'})
toLocaleTimeString(clock) ==
    << (clock \div MinutesPerHour) % HoursPerDay, clock % MinutesPerHour >>

\* new Date().toISOString().split('T')[0]
toISODate(clock) == clock \div MinutesPerDay

\* new Date().toLocaleString('de-DE'): date and time of day
toLocaleString(clock) == << toISODate(clock), toLocaleTimeString(clock) >>

isWhitespace(c) == c \in { " ", "\t", "\n" }

RECURSIVE trimStart(_)
trimStart(s) ==
    IF s = << >> THEN << >>
    ELSE IF isWhitespace(Head(s)) THEN trimStart(Tail(s)) ELSE s

RECURSIVE trimEnd(_)
trimEnd(s) ==
    IF s = << >> THEN << >>
    ELSE IF isWhitespace(s[Len(s)]) THEN trimEnd(SubSeq(s, 1, Len(s) - 1)) ELSE s

\* String.prototype.trim
trim(s) == trimEnd(trimStart(s))

\* number.slice(-2)
sliceLast2(s) == IF Len(s) <= 2 THEN s ELSE SubSeq(s, Len(s) - 1, Len(s))

specialRooms ==
    [ suffix \in { <<"G", "1">>, <<"M", "1">>, <<"B", "1">>, <<"P", "1">> } |->
        CASE suffix = <<"G", "1">> -> "Gaeste WC"
          [] suffix = <<"M", "1">> -> "Mitarbeiter WC"
          [] suffix = <<"B", "1">> -> "Behinderten WC"
          [] suffix = <<"P", "1">> -> "Pflegebad" ]

getRoomLabel(number) ==
    LET suffix == sliceLast2(number)
    IN  IF suffix \in DOMAIN specialRooms THEN specialRooms[suffix] ELSE number

\* variant: the pattern is not anchored at the end, /[GMBP]1/
isSpecialRoomUnanchored(number) ==
    \E i \in 1 .. (Len(number) - 1) :
        /\ number[i] \in { "G", "M", "B", "P" }
        /\ number[i + 1] = "1"

\* roomNumber.match(/[GMBP]1$/)
isSpecialRoom(number) ==
    /\ Len(number) >= 2
    /\ number[Len(number) - 1] \in { "G", "M", "B", "P" }
    /\ number[Len(number)] = "1"

\* variant: the three room checkboxes are rendered for every room
renderedCheckboxesAll(number) == CheckboxKeys

\* the checkboxes the form renders for a room
renderedCheckboxes(number) ==
    IF isSpecialRoom(number)
    THEN { "visualCleaning", "maintenanceCleaning" }
    ELSE CheckboxKeys

\* texts the user leaves in the notes textarea: empty, blank, plain, padded
NotesInputs == { << >>, << " " >>, << "a" >>, << " ", "a", " " >> }

\* values the user leaves in the date input: none, the day the form was
\* created, the day after
DateInputs == { EmptyDate, toISODate(StartClock), toISODate(StartClock) + 1 }

\* reader.result after readAsDataURL(file): the data URI, or null on a read error
NullResult == << "null", 0 >>
dataURL(file) == << "data", file >>
ReadResults(file) == { dataURL(file), NullResult }

\* useState initial value of formData
initialFormData(room, clock) ==
    [ date |-> toISODate(clock),
      time |-> toLocaleTimeString(clock),
      roomNumber |-> room,
      visualCleaning |-> FALSE,
      maintenanceCleaning |-> FALSE,
      basicRoomCleaning |-> FALSE,
      bedCleaning |-> FALSE,
      windowsCurtainsCleaning |-> FALSE,
      notes |-> << >>,
      staffName |-> << >> ]

\* all room identifiers of at most n characters
RECURSIVE RoomStrings(_)
RoomStrings(n) ==
    IF n = 0 THEN { << >> }
    ELSE LET shorter == RoomStrings(n - 1)
         IN  shorter \cup { Append(t, c) : t \in shorter, c \in RoomAlphabet }

\* variant: free-text notes count as a selection
hasSelectedCleaningOrNotes(fd) ==
    \/ fd.visualCleaning
    \/ fd.maintenanceCleaning
    \/ fd.basicRoomCleaning
    \/ fd.bedCleaning
    \/ fd.windowsCurtainsCleaning
    \/ fd.notes # << >>

\* variant: the last checkbox is left out of the disjunction
hasSelectedCleaningFour(fd) ==
    \/ fd.visualCleaning
    \/ fd.maintenanceCleaning
    \/ fd.basicRoomCleaning
    \/ fd.bedCleaning

hasSelectedCleaning(fd) ==
    \/ fd.visualCleaning
    \/ fd.maintenanceCleaning
    \/ fd.basicRoomCleaning
    \/ fd.bedCleaning
    \/ fd.windowsCurtainsCleaning

\* variant: the notes are tested without trim()
shouldNotifyUntrimmed(fd, imgs) == fd.notes # << >> \/ Len(imgs) > 0

\* if (formData.notes.trim() || images.length > 0)
shouldNotify(fd, imgs) == trim(fd.notes) # << >> \/ Len(imgs) > 0

\* a handler run that called onSave without a call of emailjs.send before it
NoRequest == [ images |-> << >> ]

\* the template variables handed to emailjs.send
templateParams(notes, room, imgs, clock) ==
    [ room_number |-> room, notes |-> notes, images |-> imgs,
      date |-> toLocaleString(clock) ]

\* variant: no try/catch, a failure of the provider rejects the promise
sendEmailNotificationUncaught(outcome) ==
    IF outcome = "failed" THEN "rejected" ELSE "resolved"

\* try { await emailjs.send(...) } catch { console.error(...) }: how the
\* promise of sendEmailNotification settles for an outcome of the provider
sendEmailNotification(outcome) == "resolved"

\* variant: the record is built from the draft as it is when onSave is called
savedRecordCurrent(fd, clock) ==
    [ formData EXCEPT !.time = toLocaleTimeString(clock) ]

\* onSave({ ...formData, time: new Date().toLocaleTimeString(...) })
savedRecord(fd, clock) == [ fd EXCEPT !.time = toLocaleTimeString(clock) ]

\* variant: the onSave call is wrapped in a try/catch that swallows the throw
continuesAfterSaveSwallowed(saveOk) == TRUE

\* whether handleSubmit goes on after the onSave call: a throw of onSave
\* leaves the handler
continuesAfterSave(saveOk) == saveOk

\* variant: the flag is toggled instead of set
completedAfterCommitToggled(prev) == ~prev

\* setCompletedToday(true)
completedAfterCommit(prev) == TRUE

\* setImages([])
imagesAfterCommit(prev) == << >>

\* variant: the draft is replaced by a fresh initial draft of today
resetDraftFresh(prev) ==
    [ prev EXCEPT !.visualCleaning = FALSE,
                  !.maintenanceCleaning = FALSE,
                  !.basicRoomCleaning = FALSE,
                  !.bedCleaning = FALSE,
                  !.windowsCurtainsCleaning = FALSE,
                  !.notes = << >>,
                  !.date = toISODate(now) ]

\* variant: the reset also stamps the commit time into the draft
resetDraftStamped(prev) ==
    [ prev EXCEPT !.visualCleaning = FALSE,
                  !.maintenanceCleaning = FALSE,
                  !.basicRoomCleaning = FALSE,
                  !.bedCleaning = FALSE,
                  !.windowsCurtainsCleaning = FALSE,
                  !.notes = << >>,
                  !.time = toLocaleTimeString(now) ]

\* setFormData(prev => ({ ...prev, <five flags>: false, notes: '' }))
resetDraft(prev) ==
    [ prev EXCEPT !.visualCleaning = FALSE,
                  !.maintenanceCleaning = FALSE,
                  !.basicRoomCleaning = FALSE,
                  !.bedCleaning = FALSE,
                  !.windowsCurtainsCleaning = FALSE,
                  !.notes = << >> ]

\* remove the i-th element of a sequence
RemoveAt(s, i) == SubSeq(s, 1, i - 1) \o SubSeq(s, i + 1, Len(s))

\* ------------------------------------------------------------------- Init
InitFor(rooms) ==
    /\ roomNumber \in rooms
    /\ initialCompletedToday \in BOOLEAN
    /\ completedToday = initialCompletedToday
    /\ error = ""
    /\ images = << >>
    /\ now = StartClock
    /\ formData = initialFormData(roomNumber, now)
    /\ readers = { }
    /\ uploaded = 0
    /\ inflight = << >>
    /\ sendCalls = 0
    /\ sinkCalls = 0
    /\ sinkThrows = 0
    /\ inputs = 0
    /\ accepted = 0
    /\ toggledSinceCommit = FALSE
    /\ lastEvent = [ op |-> "mount" ]

Init == InitFor(Rooms)

\* ---------------------------------------------------------------- editing
\* variant: editing a checkbox marks the room as not completed
ToggleCheckboxUncompleting ==
    \E key \in renderedCheckboxes(roomNumber) :
        /\ inputs < MaxInputs
        /\ inputs' = inputs + 1
        /\ formData' = [ formData EXCEPT ![key] = ~formData[key] ]
        /\ error' = ""
        /\ completedToday' = FALSE
        /\ toggledSinceCommit' = TRUE
        /\ lastEvent' = [ op |-> "toggle" ]
        /\ UNCHANGED << roomNumber, initialCompletedToday,
                        images, readers, uploaded, inflight, sendCalls,
                        sinkCalls, sinkThrows, now, accepted >>

\* variant: the checkbox handlers do not call setError('')
ToggleCheckboxKeepingError ==
    \E key \in renderedCheckboxes(roomNumber) :
        /\ inputs < MaxInputs
        /\ inputs' = inputs + 1
        /\ formData' = [ formData EXCEPT ![key] = ~formData[key] ]
        /\ toggledSinceCommit' = TRUE
        /\ lastEvent' = [ op |-> "toggle" ]
        /\ UNCHANGED << roomNumber, initialCompletedToday, completedToday,
                        error, images, readers, uploaded, inflight, sendCalls,
                        sinkCalls, sinkThrows, now, accepted >>

\* onChange of a rendered checkbox: e.target.checked is the negation of the
\* value shown
ToggleCheckbox ==
    \E key \in renderedCheckboxes(roomNumber) :
        /\ inputs < MaxInputs
        /\ inputs' = inputs + 1
        /\ formData' = [ formData EXCEPT ![key] = ~formData[key] ]
        /\ error' = ""
        /\ toggledSinceCommit' = TRUE
        /\ lastEvent' = [ op |-> "toggle" ]
        /\ UNCHANGED << roomNumber, initialCompletedToday, completedToday,
                        images, readers, uploaded, inflight, sendCalls,
                        sinkCalls, sinkThrows, now, accepted >>

\* onChange of the date input
ChangeDate ==
    \E value \in DateInputs \ { formData.date } :
        /\ inputs < MaxInputs
        /\ inputs' = inputs + 1
        /\ formData' = [ formData EXCEPT !.date = value ]
        /\ lastEvent' = [ op |-> "date" ]
        /\ UNCHANGED << roomNumber, initialCompletedToday, completedToday,
                        error, images, readers, uploaded, inflight, sendCalls,
                        sinkCalls, sinkThrows, now, accepted,
                    toggledSinceCommit >>

\* onChange of the notes textarea
ChangeNotes ==
    \E value \in NotesInputs \ { formData.notes } :
        /\ inputs < MaxInputs
        /\ inputs' = inputs + 1
        /\ formData' = [ formData EXCEPT !.notes = value ]
        /\ lastEvent' = [ op |-> "notes" ]
        /\ UNCHANGED << roomNumber, initialCompletedToday, completedToday,
                        error, images, readers, uploaded, inflight, sendCalls,
                        sinkCalls, sinkThrows, now, accepted,
                    toggledSinceCommit >>

\* handleImageUpload: one FileReader per selected file (each file is an input)
handleImageUpload ==
    \E n \in 1 .. (MaxInputs - inputs) :
        /\ inputs' = inputs + n
        /\ readers' = readers \cup ((uploaded + 1) .. (uploaded + n))
        /\ uploaded' = uploaded + n
        /\ lastEvent' = [ op |-> "upload" ]
        /\ UNCHANGED << roomNumber, initialCompletedToday, completedToday,
                        error, images, formData, inflight, sendCalls,
                        sinkCalls, sinkThrows, now, accepted,
                    toggledSinceCommit >>

\* reader.onloadend: setImages(prev => [...prev, reader.result])
onloadend ==
    \E file \in readers : \E result \in ReadResults(file) :
        /\ images' = Append(images, result)
        /\ readers' = readers \ { file }
        /\ lastEvent' = [ op |-> "loadend" ]
        /\ UNCHANGED << roomNumber, initialCompletedToday, completedToday,
                        error, formData, uploaded, inflight, sendCalls,
                        sinkCalls, sinkThrows, now, inputs, accepted,
                    toggledSinceCommit >>

\* the wall clock advances
Tick ==
    /\ inputs < MaxInputs
    /\ inputs' = inputs + 1
    /\ now' = now + 1
    /\ lastEvent' = [ op |-> "tick" ]
    /\ UNCHANGED << roomNumber, initialCompletedToday, completedToday, error,
                    images, formData, readers, uploaded, inflight, sendCalls,
                    sinkCalls, sinkThrows, accepted,
                    toggledSinceCommit >>

\* ------------------------------------------------------------- submission
\* the browser fires onSubmit only when the required date input has a value
submittable == formData.date # EmptyDate

\* a further input fits the bound of the model
withinInputs == inputs < MaxInputs

\* handleSubmit from the onSave call to its end, for the draft fd the handler
\* closed over: the record goes to the sink; unless onSave throws, the
\* completion flag is set, the photos are cleared and the current draft reset
commit(fd, saveOk, event) ==
    /\ sinkCalls' = sinkCalls + 1
    /\ sinkThrows' = IF saveOk THEN sinkThrows ELSE sinkThrows + 1
    /\ lastEvent' = [ op |-> event.op, accepted |-> TRUE,
                      notified |-> event.notified, outcome |-> event.outcome,
                      request |-> event.request,
                      saveOk |-> saveOk, record |-> savedRecord(fd, now) ]
    /\ IF continuesAfterSave(saveOk)
       THEN /\ completedToday' = completedAfterCommit(completedToday)
            /\ images' = imagesAfterCommit(images)
            /\ formData' = resetDraft(formData)
            /\ toggledSinceCommit' = FALSE
       ELSE UNCHANGED << completedToday, images, formData, toggledSinceCommit >>

\* variant: a rejection also resets the draft and the photos
SubmitRejectedClearing ==
    /\ submittable
    /\ ~hasSelectedCleaning(formData)
    /\ error' = ErrorMessage
    /\ images' = << >>
    /\ formData' = resetDraft(formData)
    /\ lastEvent' = [ op |-> "submit", accepted |-> FALSE, notified |-> FALSE ]
    /\ UNCHANGED << roomNumber, initialCompletedToday, completedToday,
                    readers, uploaded, inflight, sendCalls, sinkCalls,
                    sinkThrows, now, inputs, accepted,
                    toggledSinceCommit >>

\* handleSubmit, no checkbox selected: the error is set and the handler returns
SubmitRejected ==
    /\ submittable
    /\ ~hasSelectedCleaning(formData)
    /\ error' = ErrorMessage
    /\ lastEvent' = [ op |-> "submit", accepted |-> FALSE, notified |-> FALSE ]
    /\ UNCHANGED << roomNumber, initialCompletedToday, completedToday, images,
                    formData, readers, uploaded, inflight, sendCalls,
                    sinkCalls, sinkThrows, now, inputs, accepted,
                    toggledSinceCommit >>

\* variant: the notification is detached, the handler does not await it
SubmitAwaitDetached ==
    \E saveOk \in BOOLEAN :
        /\ submittable
        /\ hasSelectedCleaning(formData)
        /\ shouldNotify(formData, images)
        /\ withinInputs
        /\ inputs' = inputs + 1
        /\ accepted' = accepted + 1
        /\ error' = ""
        /\ sendCalls' = sendCalls + 1
        /\ commit(formData, saveOk,
                  [ op |-> "submit", notified |-> TRUE, outcome |-> "none",
                    request |-> templateParams(formData.notes, roomNumber,
                                               images, now) ])
        /\ UNCHANGED << roomNumber, initialCompletedToday, readers, uploaded,
                        inflight, now >>

\* handleSubmit with notes or photos: emailjs.send is called and the handler
\* is suspended at the await, holding the formData and images of this render
SubmitAwait ==
    /\ submittable
    /\ hasSelectedCleaning(formData)
    /\ shouldNotify(formData, images)
    /\ withinInputs
    /\ inputs' = inputs + 1
    /\ accepted' = accepted + 1
    /\ error' = ""
    /\ sendCalls' = sendCalls + 1
    /\ inflight' = Append(inflight,
            [ formData |-> formData, images |-> images,
              request |-> templateParams(formData.notes, roomNumber, images, now) ])
    /\ lastEvent' = [ op |-> "submit", accepted |-> TRUE, notified |-> TRUE ]
    /\ UNCHANGED << roomNumber, initialCompletedToday, completedToday, images,
                    formData, readers, uploaded, sinkCalls, sinkThrows, now,
                    toggledSinceCommit >>

\* variant: a room already completed today is locked, the handler returns
\* after validation without saving
SubmitCommitOnce ==
    \E saveOk \in BOOLEAN :
        /\ submittable
        /\ hasSelectedCleaning(formData)
        /\ ~shouldNotify(formData, images)
        /\ withinInputs
        /\ inputs' = inputs + 1
        /\ accepted' = accepted + 1
        /\ error' = ""
        /\ IF completedToday
           THEN /\ lastEvent' = [ op |-> "submit", accepted |-> TRUE,
                                  notified |-> FALSE ]
                /\ UNCHANGED << sinkCalls, sinkThrows, completedToday, images,
                                formData, toggledSinceCommit >>
           ELSE commit(formData, saveOk,
                       [ op |-> "submit", notified |-> FALSE, outcome |-> "none",
                         request |-> NoRequest ])
        /\ UNCHANGED << roomNumber, initialCompletedToday, readers, uploaded,
                        inflight, sendCalls, now >>

\* handleSubmit without notes and photos: runs to its end in one step
SubmitCommit ==
    \E saveOk \in BOOLEAN :
        /\ submittable
        /\ hasSelectedCleaning(formData)
        /\ ~shouldNotify(formData, images)
        /\ withinInputs
        /\ inputs' = inputs + 1
        /\ accepted' = accepted + 1
        /\ error' = ""
        /\ commit(formData, saveOk,
                  [ op |-> "submit", notified |-> FALSE, outcome |-> "none",
                    request |-> NoRequest ])
        /\ UNCHANGED << roomNumber, initialCompletedToday, readers, uploaded,
                        inflight, sendCalls, now >>

handleSubmit == SubmitRejected \/ SubmitAwait \/ SubmitCommit

ProviderOutcomes == { "delivered", "failed" }

\* variant: a failed delivery is sent again
SendSettledRetrying ==
    \E i \in 1 .. Len(inflight) : \E outcome \in ProviderOutcomes :
      \E saveOk \in BOOLEAN :
        LET closure == inflight[i]
        IN  /\ IF outcome = "failed" /\ sendCalls < MaxInputs
               THEN /\ sendCalls' = sendCalls + 1
                    /\ lastEvent' = [ op |-> "retried", outcome |-> outcome ]
                    /\ UNCHANGED << inflight, sinkCalls, sinkThrows,
                                    completedToday, images, formData,
                                    toggledSinceCommit >>
               ELSE /\ inflight' = RemoveAt(inflight, i)
                    /\ commit(closure.formData, saveOk,
                              [ op |-> "settled", notified |-> TRUE,
                                outcome |-> outcome,
                                request |-> closure.request ])
                    /\ UNCHANGED sendCalls
            /\ UNCHANGED << roomNumber, initialCompletedToday, error, readers,
                            uploaded, now, inputs, accepted >>

\* the provider call of a suspended handleSubmit returns or throws, and the
\* handler runs on from the await with the values it closed over
SendSettled ==
    \E i \in 1 .. Len(inflight) : \E outcome \in ProviderOutcomes :
      \E saveOk \in BOOLEAN :
        LET closure == inflight[i]
        IN  /\ inflight' = RemoveAt(inflight, i)
            /\ IF sendEmailNotification(outcome) = "resolved"
               THEN commit(closure.formData, saveOk,
                           [ op |-> "settled", notified |-> TRUE,
                             outcome |-> outcome, request |-> closure.request ])
               ELSE /\ lastEvent' = [ op |-> "aborted", outcome |-> outcome ]
                    /\ UNCHANGED << sinkCalls, sinkThrows, completedToday,
                                    images, formData, toggledSinceCommit >>
            /\ UNCHANGED << roomNumber, initialCompletedToday, error, readers,
                            uploaded, sendCalls, now, inputs, accepted >>

Next ==
    \/ ToggleCheckbox
    \/ ChangeDate
    \/ ChangeNotes
    \/ handleImageUpload
    \/ onloadend
    \/ Tick
    \/ handleSubmit
    \/ SendSettled

Spec == Init /\ [][Next]_vars

\* ---------------------------------------------------------- classification
\* the first render of a form mounted for any room identifier: the heading
\* shows getRoomLabel(roomNumber), the checklist follows isSpecialRoom
ClassifyInit == InitFor(RoomStrings(MaxRoomLen))

Render ==
    /\ lastEvent.op = "mount"
    /\ lastEvent' = [ op |-> "render",
                      label |-> getRoomLabel(roomNumber),
                      special |-> isSpecialRoom(roomNumber),
                      checkboxes |-> renderedCheckboxes(roomNumber) ]
    /\ UNCHANGED << roomNumber, initialCompletedToday, completedToday, error,
                    images, formData, readers, uploaded, inflight, sendCalls,
                    sinkCalls, sinkThrows, now, inputs, accepted,
                    toggledSinceCommit >>

ClassifySpec == ClassifyInit /\ [][Render]_vars

\* what the runtime schedules on its own: a FileReader that was started ends.
\* The user is not bound to act and the provider is not bound to answer, and
\* the await at emailjs.send has no timeout that would resume the handler.
FairSpec == Spec /\ WF_vars(onloadend)

\* ------------------------------------------------------------- properties
\* vocabulary of the properties, stated on the draft itself

AnyFlagSet(fd) == \E key \in CheckboxKeys : fd[key]

AllFlagsClear(fd) == \A key \in CheckboxKeys : ~fd[key]

\* a text is blank when it has no character other than white space
Blank(text) == \A i \in 1 .. Len(text) : text[i] \in { " ", "\t", "\n" }

SameFlags(a, b) == \A key \in CheckboxKeys : a[key] = b[key]

\* the step is a run of handleSubmit up to its return or its await
SubmitStep == lastEvent'.op = "submit"

\* the step is the run of a handleSubmit from its await to its end
SettleStep == lastEvent'.op = "settled"

\* the step calls onSave
SinkCallStep == sinkCalls' = sinkCalls + 1

\* the step calls onSave and onSave returns: a successful commit
CommitStep == SinkCallStep /\ sinkThrows' = sinkThrows

\* the step calls onSave and onSave throws
SinkThrowStep == SinkCallStep /\ sinkThrows' = sinkThrows + 1

\* the step calls emailjs.send
DispatchStep == sendCalls' = sendCalls + 1

\* the state follows a handler run that called onSave
AfterSinkCall == lastEvent.op \in { "submit", "settled" } /\ lastEvent.accepted
                 /\ (lastEvent.op = "submit" => ~lastEvent.notified)

\* C1: a submission calls the Dispatcher exactly when the draft has a checkbox
\* selected and, at that moment, the notes are not blank or there is a photo;
\* it never calls it twice
C1_DispatchIffNotesOrPhotos ==
    [][ SubmitStep =>
          /\ sendCalls' \in { sendCalls, sendCalls + 1 }
          /\ DispatchStep <=> ( /\ AnyFlagSet(formData)
                                /\ (~Blank(formData.notes) \/ Len(images) > 0) )
      ]_vars

\* a submission with white-space-only notes and no photo committed without
\* a Dispatcher call
C1_Witness ==
    /\ AfterSinkCall
    /\ lastEvent.op = "submit"
    /\ lastEvent.record.notes = << " " >>
    /\ lastEvent.record.visualCleaning
    /\ sendCalls = 0
    /\ sinkCalls = 1

\* C2: a submission of a draft with no checkbox selected sets the validation
\* error and calls neither the sink nor the Dispatcher
C2_NoFlagRejected ==
    [][ SubmitStep /\ AllFlagsClear(formData) =>
          /\ error' = ErrorMessage
          /\ sinkCalls' = sinkCalls
          /\ sendCalls' = sendCalls
          /\ inflight' = inflight
      ]_vars

\* a special room's draft with notes and a photo but no checkbox was rejected
C2_Witness ==
    /\ lastEvent.op = "submit"
    /\ ~lastEvent.accepted
    /\ isSpecialRoom(roomNumber)
    /\ error = ErrorMessage
    /\ formData.notes = << "a" >>
    /\ Len(images) > 0
    /\ sinkCalls = 0
    /\ sendCalls = 0

\* C3: when the provider call of a validated submission fails and onSave
\* returns, the record is handed to the sink, the completion flag is set, the
\* error is not touched, and the draft and the photos are reset
C3_DeliveryFailureAbsorbed ==
    [][ lastEvent'.op \in { "settled", "aborted" }
        /\ lastEvent'.outcome = "failed"
        /\ (lastEvent'.op = "settled" => lastEvent'.saveOk) =>
          /\ SettleStep
          /\ CommitStep
          /\ completedToday'
          /\ error' = error
          /\ images' = << >>
          /\ AllFlagsClear(formData')
          /\ formData'.notes = << >>
          /\ formData'.date = formData.date
          /\ formData'.roomNumber = formData.roomNumber
          /\ formData'.staffName = formData.staffName
      ]_vars

\* a submission whose delivery failed has committed
C3_Witness ==
    /\ lastEvent.op = "settled"
    /\ lastEvent.outcome = "failed"
    /\ lastEvent.saveOk
    /\ completedToday
    /\ ~initialCompletedToday
    /\ sinkCalls = 1
    /\ error = ""

\* C4: a submission of a draft with a checkbox selected passes validation
\* and makes one onSave call whose record has the flags, notes, date,
\* roomNumber and staffName the draft had when it was submitted: at once when
\* no notification is due, else when its provider call has settled
RecordOfDraft(record, fd) ==
    /\ SameFlags(record, fd)
    /\ record.notes = fd.notes
    /\ record.date = fd.date
    /\ record.roomNumber = fd.roomNumber
    /\ record.staffName = fd.staffName

C4_SelectedDraftIsSaved ==
    [][ /\ SubmitStep /\ AnyFlagSet(formData) =>
            /\ error' = ""
            /\ accepted' = accepted + 1
            /\ \/ /\ SinkCallStep
                  /\ inflight' = inflight
                  /\ RecordOfDraft(lastEvent'.record, formData)
               \/ /\ sinkCalls' = sinkCalls
                  /\ Len(inflight') = Len(inflight) + 1
                  /\ SubSeq(inflight', 1, Len(inflight)) = inflight
                  /\ inflight'[Len(inflight')].formData = formData
        /\ lastEvent'.op \in { "settled", "aborted" } =>
            /\ SinkCallStep
            /\ \E i \in 1 .. Len(inflight) :
                  /\ inflight' = RemoveAt(inflight, i)
                  /\ RecordOfDraft(lastEvent'.record, inflight[i].formData)
      ]_vars

\* a draft submitted with notes was edited while its notification was in
\* flight, and the record saved afterwards is the draft as submitted
C4_Witness ==
    /\ lastEvent.op = "settled"
    /\ lastEvent.record.notes = << "a" >>
    /\ lastEvent.record.visualCleaning
    /\ lastEvent.record.date = toISODate(StartClock)
    /\ formData.date # toISODate(StartClock)
    /\ sinkCalls = 1

\* C5: a successful commit leaves the draft with the five flags false, the
\* notes empty and no photos, and with the date, roomNumber and staffName it
\* had before
C5_PostCommitReset ==
    [][ CommitStep =>
          /\ AllFlagsClear(formData')
          /\ formData'.notes = << >>
          /\ images' = << >>
          /\ formData'.date = formData.date
          /\ formData'.roomNumber = formData.roomNumber
          /\ formData'.staffName = formData.staffName
      ]_vars

\* a draft with an overridden date and notes was committed: the date stays
C5_Witness ==
    /\ AfterSinkCall
    /\ lastEvent.saveOk
    /\ lastEvent.record.notes # << >>
    /\ formData.date = toISODate(StartClock) + 1
    /\ AllFlagsClear(formData)
    /\ formData.notes = << >>
    /\ images = << >>

\* C6: the completion flag starts at the value the caller supplied, is true
\* after every successful commit, and once true stays true
C6_CompletionMonotonic ==
    /\ completedToday = initialCompletedToday
    /\ [][ /\ completedToday => completedToday'
           /\ CommitStep => completedToday'
         ]_vars

\* a form that started not completed was committed and then saw a rejected
\* submission, and is still completed
C6_Witness ==
    /\ ~initialCompletedToday
    /\ completedToday
    /\ sinkCalls = 2
    /\ lastEvent.op = "submit"
    /\ ~lastEvent.accepted

\* C7: when onSave throws, the submission leaves the completion flag, the
\* photos and the draft as they were
C7_SinkFailureAborts ==
    [][ SinkThrowStep =>
          /\ completedToday' = completedToday
          /\ images' = images
          /\ formData' = formData
      ]_vars

\* onSave threw for a submission with a photo and notes: nothing was reset
C7_Witness ==
    /\ lastEvent.op = "settled"
    /\ ~lastEvent.saveOk
    /\ sinkThrows = 1
    /\ ~completedToday
    /\ Len(images) > 0
    /\ AnyFlagSet(formData)
    /\ formData.notes # << >>

\* C8: a rejected submission changes nothing but the validation error
C8_RejectionKeepsDraft ==
    [][ SubmitStep /\ ~lastEvent'.accepted =>
          /\ formData' = formData
          /\ images' = images
          /\ completedToday' = completedToday
          /\ error' = ErrorMessage
          /\ UNCHANGED << roomNumber, readers, inflight, sendCalls, sinkCalls,
                          sinkThrows >>
      ]_vars

\* a draft with notes, a photo and an overridden date was rejected
C8_Witness ==
    /\ lastEvent.op = "submit"
    /\ ~lastEvent.accepted
    /\ formData.notes # << >>
    /\ Len(images) > 0
    /\ formData.date = toISODate(StartClock) + 1
    /\ error = ErrorMessage

\* C9 as stated: after a successful commit the draft's time is the time
\* stamped into the record handed to the sink
C9_DraftTimeIsCommitTime ==
    [][ CommitStep => formData'.time = lastEvent'.record.time ]_vars

\* C9, amended: a successful commit stamps the wall clock of the commit into
\* the record only; the draft's time is left as it was, which is the time the
\* form was created
C9_DraftTimeIsCreationTime ==
    /\ [] (formData.time = toLocaleTimeString(StartClock))
    /\ [][ CommitStep =>
             /\ formData'.time = formData.time
             /\ lastEvent'.record.time = toLocaleTimeString(now)
         ]_vars

\* a commit made a minute after the form was created: the record carries
\* the new time, the draft the old one
C9_Witness ==
    /\ AfterSinkCall
    /\ lastEvent.saveOk
    /\ lastEvent.record.time = toLocaleTimeString(StartClock + 1)
    /\ formData.time = toLocaleTimeString(StartClock)
    /\ lastEvent.record.time # formData.time

\* C10: a submission that passes validation commits whether or not the room
\* is already completed: every validated submission is in flight or has made
\* its one onSave call, and the completion flag is true after every commit
C10_ResubmissionCommits ==
    /\ [] (accepted = sinkCalls + Len(inflight))
    /\ [] (sinkCalls > sinkThrows => completedToday)
    /\ [][ SubmitStep /\ AnyFlagSet(formData) => accepted' = accepted + 1 ]_vars

\* two validated submissions were made on a room that was already completed,
\* and the sink has two records
C10_Witness ==
    /\ initialCompletedToday
    /\ completedToday
    /\ accepted = 2
    /\ sinkCalls = 2
    /\ sinkThrows = 0
    /\ inflight = << >>

\* C11 as stated: every submission that passed validation eventually has its
\* record handed to the sink, whatever the provider does
C11_ValidatedEventuallySaved ==
    \A n \in 1 .. MaxInputs : (accepted >= n) ~> (sinkCalls >= n)

\* C12: for every room identifier, the room is special and labelled from the
\* table exactly when its last two characters are G1, M1, B1 or P1; otherwise
\* it is standard, labelled by the identifier itself, with the full checklist
EndsInReservedSuffix(number) ==
    /\ Len(number) >= 2
    /\ << number[Len(number) - 1], number[Len(number)] >> \in
          { << "G", "1" >>, << "M", "1" >>, << "B", "1" >>, << "P", "1" >> }

TableLabel(letter) ==
    CASE letter = "G" -> "Gaeste WC"
      [] letter = "M" -> "Mitarbeiter WC"
      [] letter = "B" -> "Behinderten WC"
      [] letter = "P" -> "Pflegebad"

C12_ClassificationSuffixExact ==
    lastEvent.op = "render" =>
        /\ lastEvent.special = EndsInReservedSuffix(roomNumber)
        /\ IF EndsInReservedSuffix(roomNumber)
           THEN /\ lastEvent.label = TableLabel(roomNumber[Len(roomNumber) - 1])
                /\ lastEvent.checkboxes = { "visualCleaning", "maintenanceCleaning" }
           ELSE /\ lastEvent.label = roomNumber
                /\ lastEvent.checkboxes = CheckboxKeys

\* a three-character identifier ending in P1 was rendered as the care bath
C12_Witness ==
    /\ lastEvent.op = "render"
    /\ roomNumber = << "2", "P", "1" >>
    /\ lastEvent.special
    /\ lastEvent.label = "Pflegebad"

\* C13: the provider is called by submissions only, once per validated
\* submission at most, and a handler resumed after a failed delivery makes no
\* further provider call
C13_NoRetry ==
    /\ [] (sendCalls <= accepted)
    /\ [][ /\ sendCalls' \in { sendCalls, sendCalls + 1 }
           /\ DispatchStep => SubmitStep /\ accepted' = accepted + 1
           /\ Len(inflight') < Len(inflight) => sendCalls' = sendCalls
         ]_vars

\* a delivery failed and the handler ran to its end: the provider was called
\* once for the one submission
C13_Witness ==
    /\ lastEvent.op = "settled"
    /\ lastEvent.outcome = "failed"
    /\ accepted = 1
    /\ sendCalls = 1
    /\ inflight = << >>

\* C14: checkbox, notes and date edits, file selections and completed file
\* reads call neither the sink nor the provider and leave the completion flag
\* alone; these change only in a run of handleSubmit
EditOps == { "toggle", "notes", "date", "upload", "loadend" }

C14_EditingHasNoExternalEffect ==
    [][ /\ lastEvent'.op \in EditOps =>
              UNCHANGED << sinkCalls, sinkThrows, sendCalls, completedToday,
                           inflight >>
        /\ ( \/ sinkCalls' # sinkCalls
             \/ sendCalls' # sendCalls
             \/ completedToday' # completedToday ) =>
              lastEvent'.op \in { "submit", "settled" }
      ]_vars

\* a photo read ended on a draft with a checkbox and notes, and nothing had
\* been sent or saved
C14_Witness ==
    /\ lastEvent.op = "loadend"
    /\ Len(images) > 0
    /\ AnyFlagSet(formData)
    /\ formData.notes # << >>
    /\ sinkCalls = 0
    /\ sendCalls = 0
    /\ ~completedToday

\* C15: a rejected submission sets the validation error, a checkbox toggle
\* and a validated submission clear it, and nothing else changes it
C15_ErrorLifecycle ==
    /\ error = ""
    /\ [][ /\ SubmitStep /\ AllFlagsClear(formData) => error' = ErrorMessage
           /\ SubmitStep /\ AnyFlagSet(formData) => error' = ""
           /\ lastEvent'.op = "toggle" => error' = ""
           /\ lastEvent'.op \notin { "submit", "toggle" } => error' = error
         ]_vars

\* the error of a rejected submission is still shown after a notes edit
C15_Witness ==
    /\ lastEvent.op = "notes"
    /\ error = ErrorMessage
    /\ formData.notes # << >>

\* C16: a submission that calls the provider saves nothing, sets no flag and
\* resets nothing in that step; its onSave call, with the time read then, is
\* made by the step in which its provider call settles
C16_CommitAfterProviderReturn ==
    [][ /\ SubmitStep /\ DispatchStep =>
              /\ Len(inflight') = Len(inflight) + 1
              /\ UNCHANGED << sinkCalls, completedToday, formData, images >>
        /\ SinkCallStep /\ lastEvent'.notified =>
              /\ SettleStep
              /\ Len(inflight') = Len(inflight) - 1
              /\ lastEvent'.record.time = toLocaleTimeString(now)
      ]_vars

\* a provider call settled a minute after it was made, and the record
\* carries the later time
C16_Witness ==
    /\ lastEvent.op = "settled"
    /\ lastEvent.saveOk
    /\ lastEvent.request.date = toLocaleString(StartClock)
    /\ lastEvent.record.time = toLocaleTimeString(StartClock + 1)
    /\ completedToday

\* C17: every record handed to the sink has a checkbox selected; the record
\* of a submission that awaited the provider is the draft that handler closed
\* over, whatever was edited meanwhile
C17_RecordIsValidatedDraft ==
    [][ SinkCallStep =>
          /\ AnyFlagSet(lastEvent'.record)
          /\ SettleStep =>
                \E i \in 1 .. Len(inflight) :
                    /\ inflight' = RemoveAt(inflight, i)
                    /\ lastEvent'.record =
                          [ inflight[i].formData EXCEPT
                                !.time = lastEvent'.record.time ]
      ]_vars

\* the checkbox was cleared and a submission rejected while the notification
\* was in flight, and the record saved afterwards still has its checkbox
C17_Witness ==
    /\ lastEvent.op = "settled"
    /\ error = ErrorMessage
    /\ AnyFlagSet(lastEvent.record)
    /\ sinkCalls = 1

\* C18 as stated: every photo a handler run removes from the photo sequence
\* was in the request that run made to the provider
InSeq(x, seq) == \E j \in 1 .. Len(seq) : seq[j] = x

C18_NoPhotoDropped ==
    [][ lastEvent'.op \in { "submit", "settled" } /\ images' # images =>
          \A k \in 1 .. Len(images) :
              \/ InSeq(images[k], images')
              \/ InSeq(images[k], lastEvent'.request.images)
      ]_vars

\* C19 as stated: before an onSave call that returns, a checkbox was toggled
\* since the previous onSave call that returned
C19_OneCommitPerSelection ==
    [][ CommitStep /\ sinkCalls > sinkThrows => toggledSinceCommit ]_vars

\* C20: in a special room the three room flags are false in the draft, in
\* every draft a suspended handler holds and in every record handed to the
\* sink, so that a flag is set exactly when one of the two rendered ones is
RoomFlagsClear(fd) ==
    /\ ~fd.basicRoomCleaning
    /\ ~fd.bedCleaning
    /\ ~fd.windowsCurtainsCleaning

C20_SpecialRoomFlags ==
    EndsInReservedSuffix(roomNumber) =>
        /\ RoomFlagsClear(formData)
        /\ \A i \in 1 .. Len(inflight) : RoomFlagsClear(inflight[i].formData)
        /\ AfterSinkCall => RoomFlagsClear(lastEvent.record)
        /\ AnyFlagSet(formData) <=>
              (formData.visualCleaning \/ formData.maintenanceCleaning)

\* a special room was committed with its maintenance checkbox
C20_Witness ==
    /\ EndsInReservedSuffix(roomNumber)
    /\ AfterSinkCall
    /\ lastEvent.saveOk
    /\ lastEvent.record.maintenanceCleaning
    /\ sinkCalls = 1

====
